---- MODULE Spec2Model ----
(***************************************************************************)
(* Model of kurrik/golibs twstream: Connection.Read and the helpers it     *)
(* drives (connect, request, readHeaders, readData, readChunkedData,       *)
(* decodeHexString, NonEmptyWriter, listeningReader), together with the    *)
(* buffered reader (bufio.Reader) and the transport they run on; and of    *)
(* oauth1a: Rfc3986Escape, encodeParameters, GetOAuthParams, Sign.         *)
(*                                                                         *)
(* Bytes are their numeric values; a string is a sequence of bytes.        *)
(***************************************************************************)
EXTENDS Integers, Sequences, FiniteSets, TLC

\* ------------------------------------------------------------------ bounds
\* Transport reads that may deliver data; reads beyond it end the stream.
MaxReads == 3
\* Clock ticks observed after body streaming began.
MaxTime == 2
\* Values of Configuration.TTL that are explored (0 = not set).
MaxTTL == 1

\* ------------------------------------------------------------ byte helpers
CR == 13
LF == 10
CRLF == <<CR, LF>>
\* size of the block read from the decompressed stream
BlockSize == 512
\* the largest value of a byte
ByteMax == 255

Min(a, b) == IF a < b THEN a ELSE b

RECURSIVE Flatten(_)
Flatten(ss) == IF ss = <<>> THEN <<>> ELSE Head(ss) \o Flatten(Tail(ss))

HasLF(b) == \E i \in 1..Len(b) : b[i] = LF
IndexLF(b) == CHOOSE i \in 1..Len(b) : b[i] = LF /\ \A j \in 1..(i-1) : b[j] # LF

\* strings.HasPrefix / strings.Index / strings.ToLower on byte strings
HasPrefix(s, p) == Len(s) >= Len(p) /\ SubSeq(s, 1, Len(p)) = p
Contains(s, p) == \E i \in 0..(Len(s) - Len(p)) : SubSeq(s, i + 1, i + Len(p)) = p
\* Mutant: the line is compared as it came, without lowering its case.
ToLowerNone(s) == s

ToLower(s) == [i \in 1..Len(s) |-> IF 65 <= s[i] /\ s[i] <= 90 THEN s[i] + 32 ELSE s[i]]

\* "content-encoding:" and "gzip"
StrContentEncoding == <<99,111,110,116,101,110,116,45,101,110,99,111,100,105,110,103,58>>
StrGzip == <<103,122,105,112>>
\* "Expected hex, got "
StrExpectedHex == <<69,120,112,101,99,116,101,100,32,104,101,120,44,32,103,111,116,32>>

\* Mutant: the range of the lower-case digits runs one letter too far.
HexDigitThroughG(c) ==
    IF 48 <= c /\ c <= 57 THEN c - 48
    ELSE IF 97 <= c /\ c <= 103 THEN c - 97 + 10
    ELSE IF 65 <= c /\ c <= 70 THEN c - 65 + 10
    ELSE -1

\* ------------------------------------------------------- decodeHexString
\* The value of one hex digit, or -1 for a byte outside the three ranges.
HexDigit(c) ==
    IF 48 <= c /\ c <= 57 THEN c - 48
    ELSE IF 97 <= c /\ c <= 102 THEN c - 97 + 10
    ELSE IF 65 <= c /\ c <= 70 THEN c - 65 + 10
    ELSE -1

\* [ok, size]: the loop of decodeHexString, left to right; the first byte
\* that is no hex digit makes it return (0, error).  size is a uint64 in the
\* code; lines of the model are far shorter than the 16 digits that wrap it.
RECURSIVE HexLoop(_, _)
HexLoop(data, size) ==
    IF data = <<>> THEN [ok |-> TRUE, size |-> size]
    ELSE IF HexDigit(Head(data)) = -1 THEN [ok |-> FALSE, size |-> 0]
    ELSE HexLoop(Tail(data), size * 16 + HexDigit(Head(data)))

\* Mutant: a line without any digit is rejected.
decodeHexStringNonEmpty(data) ==
    IF data = <<>> THEN [ok |-> FALSE, size |-> 0] ELSE HexLoop(data, 0)

decodeHexString(data) == HexLoop(data, 0)

\* ------------------------------------------------------- bufio.ReadLine
\* ReadLine on a buffer b whose last fill ended with error e ("none" when the
\* buffer holds a line feed).  A line is returned without its CR LF / LF; a
\* partial line before an error is returned WITHOUT the error; the error is
\* returned only with an empty line.
ReadLine(b, e) ==
    IF HasLF(b) THEN
        LET i == IndexLF(b)
            n == IF i > 1 /\ b[i-1] = CR THEN i - 2 ELSE i - 1
        IN [line |-> SubSeq(b, 1, n), rest |-> SubSeq(b, i + 1, Len(b)), err |-> "none"]
    ELSE IF b # <<>> THEN [line |-> b, rest |-> <<>>, err |-> "none"]
    ELSE [line |-> <<>>, rest |-> <<>>, err |-> e]

\* Mutant: the comparison with CR LF is lost, every two-byte write is dropped.
NonEmptyWriterWriteAnyTwo(o, p) ==
    IF Len(p) = 0 \/ Len(p) = 2 THEN o ELSE Append(o, p)

\* ------------------------------------------------------- NonEmptyWriter
\* Write p to the sink o (the sequence of writes made so far) unless p is
\* empty or is exactly CR LF.
NonEmptyWriterWrite(o, p) ==
    IF Len(p) = 0 \/ (Len(p) = 2 /\ p = CRLF) THEN o ELSE Append(o, p)

\* ------------------------------------------------------------- the state
VARIABLES
    conf,       \* the Configuration the Connection points to
    pc,         \* where Read is: idle, dialed, headers, gzopen, line, size,
                \*   copy, gunzip, ttl; done (returned), crashed (stack
                \*   overflow), panicked, aborted (test double failed the test)
    result,     \* what Read returned: [ret, text]
    net,        \* transport operations so far: [dials, writes, reads, closes]
    eof,        \* the transport has reported end of stream
    mock,       \* the transport is the scripted MockConnection
    script,     \* MockConnection.commands / messages still queued
    mockOk,     \* no "Unexpected ..." failure of the MockConnection so far
    reqErr,     \* what Connection.request returned ("unset" before the call)
    sent,       \* the request written: its Connection / Accept-Encoding headers
    buf,        \* bytes held by c.reader (bufio.Reader)
    rdErr,      \* error stored by the last fill of c.reader
    isGZip,     \* readHeaders' isGZip
    decomp,     \* a gzip decompressor exists
    err,        \* readChunkedData's err
    remain,     \* bytes the running io.CopyN still has to copy
    elapsed,    \* time.Now().Sub(start), in clock ticks
    out,        \* writes made to standard output, in order
    zip,        \* chunked gzip: [buffer, err] - the bytes.Buffer between the
                \*   chunks and the decompressor, the decompressor's sticky error
    hist,       \* history: what the run has seen (read by the properties only)
    oa          \* the call of a library function under study: [op, ...]

streamVars == <<conf, pc, result, net, eof, mock, script, mockOk, reqErr, sent,
                buf, rdErr, isGZip, decomp, err, remain, elapsed, out, zip, hist>>

vars == <<conf, pc, result, net, eof, mock, script, mockOk, reqErr, sent, buf,
          rdErr, isGZip, decomp, err, remain, elapsed, out, zip, hist, oa>>

NoResult == [ret |-> "none", text |-> <<>>]
Ret(r) == [ret |-> r, text |-> <<>>]

\* ------------------------------------------------ what the transport sends
\* Response header material: a header line, Content-Encoding: gzip, a line
\* "gzip" that is no Content-Encoding header, the blank line, the blank line
\* with the start of a chunked body, a partial line.
HeaderSegs == {
    <<97, 13, 10>>,
    <<67,111,110,116,101,110,116,45,69,110,99,111,100,105,110,103,58,32,103,122,105,112,13,10>>,
    <<103, 122, 105, 112, 13, 10>>,
    <<13, 10>>,
    <<13, 10, 49, 13, 10, 120>>,
    <<97>> }

\* Body material: "0\r\n", "1\r\n", "a\r\n", "2\r\n\r\n\r\n", "g\r\n", "\r\n", "xy".
BodySegs == {
    <<48, 13, 10>>,
    <<49, 13, 10>>,
    <<97, 13, 10>>,
    <<50, 13, 10, 13, 10, 13, 10>>,
    <<103, 13, 10>>,
    <<13, 10>>,
    <<120, 121>> }

\* What a read of the decompressed stream can yield.
GzData == { <<120>>, <<120, 121, 10>> }

\* ------------------------------------------------- the compressed stream
\* compress/gzip is library code; it is modelled by a format that keeps what
\* the callers depend on.  A stream is a header (here the two magic bytes),
\* then tokens: a byte >= 128 is a literal (value - 128), 1 closes a block
\* with a sync flush, 0 is the final block with the trailer.
GzMagic == <<31, 139>>

\* "x", flush, "y", end: the compressed form of GzPlain.
GzPlain == <<120, 121>>
GzStream == GzMagic \o <<248, 1, 249, 0>>

\* flate's Read over the bytes.Buffer: decode until a block is flushed with
\* data to hand over, the stream ends, or the buffer runs dry.  A dry buffer
\* is io.ErrUnexpectedEOF, and like every error of the reader it sticks; the
\* bytes decoded before it are handed over first.
RECURSIVE Inflate(_, _)
Inflate(b, acc) ==
    IF b = <<>> THEN [data |-> acc, rest |-> b, err |-> "UnexpectedEOF"]
    ELSE IF Head(b) >= 128 THEN Inflate(Tail(b), Append(acc, Head(b) - 128))
    ELSE IF Head(b) = 1
         THEN IF acc = <<>> THEN Inflate(Tail(b), acc)
              ELSE [data |-> acc, rest |-> Tail(b), err |-> "none"]
    ELSE IF Head(b) = 0 THEN [data |-> acc, rest |-> Tail(b), err |-> "EOF"]
    ELSE [data |-> acc, rest |-> Tail(b), err |-> "GzipError"]

\* zipReader.Read(data) (line 244), a bufio.Reader over the decompressor:
\* a pending error is returned; else one Read of the decompressor, whose
\* error is returned at once when it came without data and kept for the next
\* call otherwise.  (The decoded runs of the model are shorter than a block.)
zipReaderRead(z) ==
    IF z.err # "none" THEN [data |-> <<>>, err |-> z.err, zip |-> z]
    ELSE LET r == Inflate(z.buffer, <<>>) IN
         [data |-> r.data,
          err |-> IF r.data = <<>> THEN r.err ELSE "none",
          zip |-> [buffer |-> r.rest, err |-> r.err]]

\* A chunked body carrying GzStream in two chunks, cut after i bytes:
\* size line, chunk, CR LF, size line, chunk, CR LF.
TwoChunks(i) ==
    <<48 + i>> \o CRLF \o SubSeq(GzStream, 1, i) \o CRLF
    \o <<48 + Len(GzStream) - i>> \o CRLF
    \o SubSeq(GzStream, i + 1, Len(GzStream)) \o CRLF

\* Chunked gzip body material: the two-chunk bodies and a lone size line.
GzChunkSegs == { TwoChunks(i) : i \in 0..Len(GzStream) } \cup { <<50, 13, 10>> }

\* The lines the scripted transport of TestParse supplies.
TestLines == { <<123, 125>>, <<97>> }

WRITE == "WRITE"
READ == "READ"
CLOSE == "CLOSE"
EOF == "EOF"
EMPTY == "EMPTY"

Step(c, m) == [cmd |-> c, msg |-> m]
\* TestParse: Expect(WRITE), Expect(READ, L + CRLF), Expect(EOF), Expect(CLOSE)
TestParseScript(L) == << Step(WRITE, <<>>), Step(READ, L \o CRLF), Step(EOF, <<>>), Step(CLOSE, <<>>) >>

\* MockConnection.getExpected: the head of the queue, or EMPTY
getExpected(q) == IF q = <<>> THEN Step(EMPTY, <<>>) ELSE Head(q)
popExpected(q) == IF q = <<>> THEN q ELSE Tail(q)

TTLs == 0..MaxTTL

Confs == [Chunked : BOOLEAN, GZip : BOOLEAN, TTL : TTLs, ReaderListener : BOOLEAN]

InitCommon ==
    /\ pc = "idle"
    /\ result = NoResult
    /\ net = [dials |-> 0, writes |-> 0, reads |-> 0, closes |-> 0]
    /\ eof = FALSE
    /\ mockOk = TRUE
    /\ reqErr = "unset"
    /\ sent = [written |-> FALSE, close |-> FALSE, gzip |-> FALSE]
    /\ buf = <<>>
    /\ rdErr = "none"
    /\ isGZip = FALSE
    /\ decomp = FALSE
    /\ err = "none"
    /\ remain = 0
    /\ elapsed = 0
    /\ out = <<>>
    /\ zip = [buffer |-> <<>>, err |-> "none"]
    /\ oa = [op |-> "idle"]

\* The history at the start of a Read on the Configuration c; L is the line
\* of the scripted transport, down tells that an earlier Read on the same
\* Configuration cleared its GZip.
InitHist(c, L, down) ==
    [dialOk |-> FALSE, hdrIOErr |-> FALSE, bodyEof |-> FALSE,
     units |-> 0, lateUnit |-> -1, fwd |-> <<>>, wire |-> <<>>,
     sizeLine |-> <<>>, sizeReads |-> 0, sizeOut |-> 0,
     cutLine |-> FALSE, testLine |-> L,
     askedGZip |-> c.GZip, declared |-> FALSE,
     downgraded |-> down, unzipped |-> <<>>]

Init ==
    /\ InitCommon
    /\ conf \in Confs
    /\ mock \in BOOLEAN
    /\ mock => (conf.Chunked = FALSE /\ conf.GZip = FALSE /\ conf.ReaderListener = FALSE)
    /\ \E L \in (IF mock THEN TestLines ELSE {<<>>}) :
        /\ script = IF mock THEN TestParseScript(L) ELSE <<>>
        /\ hist = InitHist(conf, L, FALSE)

\* Mutant: Close is called at the end of the success path instead of being
\* deferred, so an error return leaves the transport open.
ReturnFromNoDefer(r, n, q, ok) ==
    /\ net' = [n EXCEPT !.closes = IF r.ret = "nil" THEN @ + 1 ELSE @]
    /\ script' = q
    /\ mockOk' = ok
    /\ result' = r
    /\ pc' = "done"

\* ------------------------------------------------------------ returning
\* Read returns r: its deferred c.conn.Close() runs (line 114).  n, q, ok are
\* the transport counters, the script and the test double's verdict as the
\* returning step leaves them.  MockConnection.Close fails the test when the
\* next scripted step is not CLOSE; a failed test ends the goroutine, so Read
\* does not return.
ReturnFrom(r, n, q, ok) ==
    LET good == ok /\ (mock => getExpected(q).cmd = CLOSE) IN
    /\ net' = [n EXCEPT !.closes = @ + 1]
    /\ script' = IF mock THEN popExpected(q) ELSE q
    /\ mockOk' = good
    /\ result' = IF good THEN r ELSE NoResult
    /\ pc' = IF good THEN "done" ELSE "aborted"

Return(r) == ReturnFrom(r, net, script, mockOk)

\* History: a response header line that begins, in any letter case, with
\* "Content-Encoding:" and contains "gzip" has been read.
SameFold(c, d) ==
    \/ c = d
    \/ 65 <= c /\ c <= 90 /\ d = c + 32
    \/ 65 <= d /\ d <= 90 /\ c = d + 32
BeginsFold(s, p) == Len(s) >= Len(p) /\ \A i \in 1..Len(p) : SameFold(s[i], p[i])
ContainsFold(s, p) ==
    \E k \in 0..(Len(s) - Len(p)) : \A i \in 1..Len(p) : SameFold(s[k + i], p[i])
NoteHeader(h, line) ==
    [h EXCEPT !.declared = @ \/ (BeginsFold(line, StrContentEncoding)
                                  /\ ContainsFold(line, StrGzip))]

\* A unit is being written to the output: remember the unit when the TTL is
\* configured and already exceeded at this moment.
NoteDelivery(h) ==
    IF conf.TTL > 0 /\ elapsed > conf.TTL /\ h.lateUnit = -1
    THEN [h EXCEPT !.lateUnit = h.units] ELSE h

\* ------------------------------------------------------------- connect
\* Connection.connect and the start of Read (lines 109-113): a failed dial
\* returns the error, nothing is deferred.
connect ==
    /\ pc = "idle"
    /\ \E ok \in (IF mock THEN {TRUE} ELSE BOOLEAN) :
        /\ net' = [net EXCEPT !.dials = @ + 1]
        /\ hist' = [hist EXCEPT !.dialOk = ok]
        /\ IF ok THEN pc' = "dialed" /\ result' = result
                 ELSE pc' = "done" /\ result' = Ret("DialError")
    /\ UNCHANGED <<conf, eof, mock, script, mockOk, reqErr, sent, buf, rdErr,
                   isGZip, decomp, err, remain, elapsed, out>>
    /\ UNCHANGED <<zip, oa>>

\* ------------------------------------------------------------- request
\* Read lines 114-128: defer Close, wrap writer and reader, c.request().
\* request fails before anything is written (http.NewRequest rejects the
\* method or the URL, lines 285-288; the signer itself always returns nil) or
\* in the write; Read drops the value it returns.
request ==
    /\ pc = "dialed"
    /\ \E r \in (IF mock THEN {"ok"} ELSE {"ok", "NewRequestError", "WriteError"}) :
        LET wrote == r # "NewRequestError"
            n == [net EXCEPT !.writes = IF wrote THEN @ + 1 ELSE @]
            bad == mock /\ wrote /\ getExpected(script).cmd # WRITE
            q == IF mock /\ wrote THEN popExpected(script) ELSE script
        IN /\ reqErr' = r
           /\ sent' = IF r = "ok"
                      THEN [written |-> TRUE, close |-> ~conf.Chunked, gzip |-> conf.GZip]
                      ELSE sent
           /\ IF bad THEN ReturnFrom(NoResult, n, q, FALSE)
              ELSE /\ net' = n /\ script' = q /\ pc' = "headers"
                   /\ UNCHANGED <<result, mockOk>>
    /\ UNCHANGED <<conf, eof, mock, buf, rdErr, isGZip, decomp, err, remain,
                   elapsed, out, hist>>
    /\ UNCHANGED <<zip, oa>>

\* ------------------------------------------------- reads of the transport
InBody == pc \in {"line", "size", "copy", "gunzip", "ttl"}

\* c.reader has to read the transport: ReadLine finds no line feed in the
\* buffer, or a copy finds the buffer empty, and no error is pending.
NeedData ==
    /\ rdErr = "none"
    /\ \/ pc \in {"headers", "line", "size"} /\ ~HasLF(buf)
       \/ pc = "copy" /\ remain > 0 /\ buf = <<>>

Data(b) == [k |-> "data", b |-> b]
Fail(e) == [k |-> e, b |-> <<>>]

\* What one read of the (real) transport can return.
Outcomes ==
    IF eof THEN {Fail("EOF")}
    ELSE {Fail("EOF"), Fail("IOError")}
         \cup (IF ~conf.Chunked /\ decomp THEN {Fail("GzipError")} ELSE {})
         \cup (IF net.reads >= MaxReads THEN {}
               ELSE IF pc = "headers" THEN {Data(b) : b \in HeaderSegs}
               ELSE IF ~conf.Chunked /\ decomp THEN {Data(b) : b \in GzData}
               ELSE IF conf.Chunked /\ conf.GZip THEN {Data(b) : b \in GzChunkSegs}
               ELSE {Data(b) : b \in BodySegs})

\* MockConnection.Read: EOF step -> io.EOF, READ step -> its message, any
\* other step fails the test.
MockOutcome ==
    LET s == getExpected(script) IN
    IF s.cmd = EOF THEN Fail("EOF")
    ELSE IF s.cmd = READ THEN Data(s.msg)
    ELSE Fail("Fatal")

NoteRead(h, o) ==
    [h EXCEPT !.hdrIOErr = @ \/ (pc = "headers" /\ o.k = "IOError"),
              !.bodyEof = @ \/ (InBody /\ o.k = "EOF"),
              !.wire = IF conf.Chunked /\ InBody THEN @ \o o.b ELSE @]

\* One fill of c.reader.  With a ReaderListener the reader is a
\* listeningReader, whose Read calls itself (line 73): the goroutine's stack
\* overflows before the transport is touched and the process dies.
fill ==
    /\ NeedData
    /\ IF conf.ReaderListener
       THEN /\ pc' = "crashed"
            /\ UNCHANGED <<result, net, eof, script, mockOk, buf, rdErr, hist>>
       ELSE \E o \in (IF mock THEN {MockOutcome} ELSE Outcomes) :
            LET n == [net EXCEPT !.reads = @ + 1]
                q == IF mock THEN popExpected(script) ELSE script
            IN /\ hist' = NoteRead(hist, o)
               /\ eof' = (eof \/ o.k = "EOF")
               /\ IF o.k = "Fatal"
                  THEN ReturnFrom(NoResult, n, q, FALSE) /\ UNCHANGED <<buf, rdErr>>
                  ELSE /\ net' = n /\ script' = q
                       /\ buf' = buf \o o.b
                       /\ rdErr' = IF o.k = "data" THEN "none" ELSE o.k
                       /\ UNCHANGED <<pc, result, mockOk>>
    /\ UNCHANGED <<conf, mock, reqErr, sent, isGZip, decomp, err, remain, elapsed, out>>
    /\ UNCHANGED <<zip, oa>>

\* A ReadLine on c.reader can complete: a line is buffered or the fill failed.
LineReady == pc \in {"headers", "line", "size"} /\ (HasLF(buf) \/ rdErr # "none")

\* ---------------------------------------------------------- readHeaders
\* One turn of the loop of readHeaders (lines 147-161) and, on the blank
\* line, lines 162-165 and Read's dispatch (lines 133-137) up to the first
\* blocking call of the body reader.
readHeaders ==
    /\ pc = "headers" /\ LineReady
    /\ LET r == ReadLine(buf, rdErr)
           lowerLine == ToLower(r.line)
           gz == isGZip \/ (HasPrefix(lowerLine, StrContentEncoding) /\ Contains(lowerLine, StrGzip))
           negotiated == IF conf.GZip /\ ~gz THEN FALSE ELSE conf.GZip
       IN /\ buf' = r.rest
          /\ rdErr' = "none"
          /\ isGZip' = gz
          /\ IF r.line = <<>>
             THEN /\ conf' = [conf EXCEPT !.GZip = negotiated]
                  /\ pc' = IF conf.Chunked THEN "size"
                           ELSE IF negotiated THEN "gzopen" ELSE "line"
                  /\ hist' = [hist EXCEPT !.wire = IF conf.Chunked THEN r.rest ELSE @]
                  /\ UNCHANGED <<result, net, script, mockOk>>
             ELSE IF r.err # "none"
             THEN Return(Ret(r.err)) /\ hist' = NoteHeader(hist, r.line) /\ UNCHANGED conf
             ELSE /\ hist' = NoteHeader(hist, r.line)
                  /\ UNCHANGED <<conf, pc, result, net, script, mockOk>>
    /\ elapsed' = 0
    /\ UNCHANGED <<eof, mock, reqErr, sent, decomp, err, remain, out>>
    /\ UNCHANGED <<zip, oa>>

\* ------------------------------------------------------------- readData
\* gzip.NewReader(c.reader) of readData (lines 174-181): the library reads
\* the gzip header from the transport and accepts or rejects it.
gzopen ==
    /\ pc = "gzopen"
    /\ IF conf.ReaderListener
       THEN /\ pc' = "crashed"
            /\ UNCHANGED <<result, net, eof, script, mockOk, buf, decomp>>
       ELSE \E o \in {"ok", "GzipError", "EOF", "IOError"} :
            LET n == [net EXCEPT !.reads = @ + 1] IN
            /\ eof' = (eof \/ o = "EOF")
            /\ IF o = "ok"
               THEN /\ decomp' = TRUE /\ buf' = <<>> /\ pc' = "line" /\ net' = n
                    /\ UNCHANGED <<result, script, mockOk>>
               ELSE ReturnFrom(Ret(o), n, script, mockOk) /\ UNCHANGED <<buf, decomp>>
    /\ elapsed' = 0
    /\ UNCHANGED <<conf, mock, reqErr, sent, rdErr, isGZip, err, remain, out, hist>>
    /\ UNCHANGED <<zip, oa>>

\* One line of readData (lines 185-189): ReadLine, return its error, else
\* print the line (fmt.Println appends a line feed).
readData ==
    /\ pc = "line" /\ LineReady
    /\ LET r == ReadLine(buf, rdErr) IN
       /\ buf' = r.rest
       /\ rdErr' = "none"
       /\ IF r.err # "none"
          THEN Return(Ret(r.err)) /\ UNCHANGED <<out, hist>>
          ELSE /\ out' = Append(out, r.line \o <<LF>>)
               /\ hist' = NoteDelivery(hist)
               /\ pc' = "ttl"
               /\ UNCHANGED <<result, net, script, mockOk>>
    /\ UNCHANGED <<conf, eof, mock, reqErr, sent, isGZip, decomp, err, remain, elapsed>>
    /\ UNCHANGED <<zip, oa>>

\* ------------------------------------------------------ readChunkedData
\* The size line of a chunk (lines 219-227).  A size of zero makes io.CopyN
\* return at once.
AfterCopy == IF conf.GZip THEN "gunzip" ELSE "ttl"

readChunkSize ==
    /\ pc = "size" /\ LineReady
    /\ LET r == ReadLine(buf, rdErr)
           d == decodeHexString(r.line)
       IN /\ buf' = r.rest
          /\ rdErr' = "none"
          /\ IF r.err # "none"
             THEN Return(Ret(r.err)) /\ UNCHANGED <<remain, hist>>
             ELSE /\ hist' = [hist EXCEPT !.sizeLine = r.line, !.sizeReads = net.reads,
                                          !.sizeOut = Len(out),
                                          !.cutLine = @ \/ ~HasLF(buf)]
                  /\ IF ~d.ok
                     THEN /\ Return([ret |-> "ExpectedHex", text |-> StrExpectedHex \o r.line])
                          /\ UNCHANGED remain
                     ELSE /\ remain' = d.size
                          /\ pc' = IF d.size = 0 THEN AfterCopy ELSE "copy"
                          /\ UNCHANGED <<result, net, script, mockOk>>
    /\ err' = "none"
    /\ UNCHANGED <<conf, eof, mock, reqErr, sent, isGZip, decomp, elapsed, out>>
    /\ UNCHANGED <<zip, oa>>

\* One read-and-write turn of io.CopyN(writer, c.reader, size) (lines 229,
\* 231): the buffered reader hands over what it holds, at most what is left
\* of the chunk; a failed fill ends the copy (EOF before size bytes is
\* io.EOF).  Without gzip the piece goes to the NonEmptyWriter on standard
\* output and err reaches the TTL check; with gzip it goes to the buffer and
\* an error is returned (line 233).
readChunkData ==
    /\ pc = "copy" /\ remain > 0 /\ (buf # <<>> \/ rdErr # "none")
    /\ rdErr' = "none"
    /\ IF buf # <<>>
       THEN LET k == Min(remain, Len(buf))
                piece == SubSeq(buf, 1, k)
            IN /\ buf' = SubSeq(buf, k + 1, Len(buf))
               /\ remain' = remain - k
               /\ err' = "none"
               /\ pc' = IF remain - k = 0 THEN AfterCopy ELSE "copy"
               /\ IF conf.GZip
                  THEN /\ zip' = [zip EXCEPT !.buffer = @ \o piece]
                       /\ UNCHANGED <<out, hist>>
                  ELSE /\ out' = NonEmptyWriterWrite(out, piece)
                       /\ hist' = [NoteDelivery(hist) EXCEPT !.fwd = Append(@, piece)]
                       /\ UNCHANGED zip
               /\ UNCHANGED <<result, net, script, mockOk>>
       ELSE /\ UNCHANGED <<buf, out, zip, hist>>
            /\ remain' = 0
            /\ err' = rdErr
            /\ IF conf.GZip
               THEN Return(Ret(rdErr))
               ELSE pc' = "ttl" /\ UNCHANGED <<result, net, script, mockOk>>
    /\ UNCHANGED <<conf, eof, mock, reqErr, sent, isGZip, decomp, elapsed>>
    /\ UNCHANGED oa

\* The 512-byte block: what the read put in it, then zero bytes.
Block(d) == [i \in 1..BlockSize |-> IF i <= Len(d) THEN d[i] ELSE 0]

\* Lines 235-249: on the first chunk create the decompressor over the buffer
\* (gzip.NewReader reads the header from what the buffer holds), then read
\* one block from the decompressed stream and copy the block to the writer.
\* When gzip.NewReader fails, decompressor is nil and the deferred
\* decompressor.Close() dereferences it as readChunkedData returns: Read
\* panics (its own deferred Close still runs).
readChunkGzip ==
    /\ pc = "gunzip"
    /\ LET opened == decomp \/ HasPrefix(zip.buffer, GzMagic)
           z == IF decomp THEN zip
                ELSE [zip EXCEPT !.buffer = SubSeq(@, Len(GzMagic) + 1, Len(@))]
           r == zipReaderRead(z)
       IN IF ~opened
          THEN /\ pc' = "panicked"
               /\ net' = [net EXCEPT !.closes = @ + 1]
               /\ UNCHANGED <<result, script, mockOk, decomp, out, zip, hist>>
          ELSE /\ decomp' = TRUE
               /\ zip' = r.zip
               /\ IF r.err # "none"
                  THEN Return(Ret(r.err)) /\ UNCHANGED <<out, hist>>
                  ELSE /\ out' = NonEmptyWriterWrite(out, Block(r.data))
                       /\ hist' = [NoteDelivery(hist) EXCEPT !.unzipped = Append(@, r.data)]
                       /\ pc' = "ttl"
                       /\ UNCHANGED <<result, net, script, mockOk>>
    /\ UNCHANGED <<conf, eof, mock, reqErr, sent, buf, rdErr, isGZip, err, remain, elapsed>>
    /\ UNCHANGED oa

\* Mutant: the comparison with the TTL is off by one tick.
ExpiredOffByOne == conf.TTL > 0 /\ elapsed > conf.TTL + 1

\* Mutant: the TTL is never looked at.
ExpiredNever == FALSE

\* ------------------------------------------------------------ TTL check
\* After a unit: lines 190-194 of readData, lines 251-255 of
\* readChunkedData, then the loop condition err == nil and the final return.
Expired == conf.TTL > 0 /\ elapsed > conf.TTL

\* Mutant: the loop condition err == nil is tested before the TTL.
checkTTLErrFirst ==
    /\ pc = "ttl"
    /\ IF err # "none" THEN Return(Ret(err)) /\ UNCHANGED hist
       ELSE IF Expired THEN Return(Ret("nil")) /\ UNCHANGED hist
       ELSE /\ pc' = IF conf.Chunked THEN "size" ELSE "line"
            /\ hist' = [hist EXCEPT !.units = @ + 1]
            /\ UNCHANGED <<result, net, script, mockOk>>
    /\ UNCHANGED <<conf, eof, mock, reqErr, sent, buf, rdErr, isGZip, decomp, err,
                   remain, elapsed, out>>
    /\ UNCHANGED <<zip, oa>>

checkTTL ==
    /\ pc = "ttl"
    /\ IF Expired THEN Return(Ret("nil")) /\ UNCHANGED hist
       ELSE IF err # "none" THEN Return(Ret(err)) /\ UNCHANGED hist
       ELSE /\ pc' = IF conf.Chunked THEN "size" ELSE "line"
            /\ hist' = [hist EXCEPT !.units = @ + 1]
            /\ UNCHANGED <<result, net, script, mockOk>>
    /\ UNCHANGED <<conf, eof, mock, reqErr, sent, buf, rdErr, isGZip, decomp, err,
                   remain, elapsed, out>>
    /\ UNCHANGED <<zip, oa>>

\* The clock advances while the body is being streamed.
tick ==
    /\ InBody /\ conf.TTL > 0 /\ elapsed < MaxTime
    /\ elapsed' = elapsed + 1
    /\ UNCHANGED <<conf, pc, result, net, eof, mock, script, mockOk, reqErr, sent,
                   buf, rdErr, isGZip, decomp, err, remain, out, hist>>
    /\ UNCHANGED <<zip, oa>>

\* Mutant: the Connection works on its own copy of the Configuration, so
\* the caller's value has GZip as the caller set it.
NewConnectionOwnCopy ==
    /\ pc = "done" /\ ~mock
    /\ conf' = [conf EXCEPT !.GZip = hist.askedGZip \/ hist.downgraded]
    /\ pc' = "idle"
    /\ result' = NoResult
    /\ net' = [dials |-> 0, writes |-> 0, reads |-> 0, closes |-> 0]
    /\ eof' = FALSE
    /\ reqErr' = "unset"
    /\ sent' = [written |-> FALSE, close |-> FALSE, gzip |-> FALSE]
    /\ buf' = <<>> /\ rdErr' = "none" /\ isGZip' = FALSE /\ decomp' = FALSE
    /\ err' = "none" /\ remain' = 0 /\ elapsed' = 0 /\ out' = <<>>
    /\ zip' = [buffer |-> <<>>, err |-> "none"]
    /\ hist' = InitHist(conf', <<>>, FALSE)
    /\ UNCHANGED <<mock, script, mockOk, oa>>

\* ------------------------------------------------------- NewConnection
\* Read has returned and the caller builds another Connection on the same
\* Configuration: NewConnection stores the pointer it is given (lines
\* 105-107), so the new Connection sees GZip as the last Read left it.
NewConnection ==
    /\ pc = "done" /\ ~mock
    /\ conf' = conf
    /\ pc' = "idle"
    /\ result' = NoResult
    /\ net' = [dials |-> 0, writes |-> 0, reads |-> 0, closes |-> 0]
    /\ eof' = FALSE
    /\ reqErr' = "unset"
    /\ sent' = [written |-> FALSE, close |-> FALSE, gzip |-> FALSE]
    /\ buf' = <<>> /\ rdErr' = "none" /\ isGZip' = FALSE /\ decomp' = FALSE
    /\ err' = "none" /\ remain' = 0 /\ elapsed' = 0 /\ out' = <<>>
    /\ zip' = [buffer |-> <<>>, err |-> "none"]
    /\ hist' = InitHist(conf, <<>>, hist.downgraded \/ (hist.askedGZip /\ ~conf.GZip))
    /\ UNCHANGED <<mock, script, mockOk, oa>>

Next ==
    \/ connect
    \/ request
    \/ fill
    \/ readHeaders
    \/ gzopen
    \/ readData
    \/ readChunkSize
    \/ readChunkData
    \/ readChunkGzip
    \/ checkTTL
    \/ tick
    \/ NewConnection

Spec == Init /\ [][Next]_vars

\* The steps of the goroutine that runs Read.  Read is sequential code: when
\* its next step does not wait for the transport, it is taken.  The
\* transport (fill), the clock (tick) and the caller (NewConnection) are
\* under no such obligation: a peer can keep the connection open and send
\* nothing, and no read carries a deadline.
ReadStep ==
    \/ connect
    \/ request
    \/ readHeaders
    \/ gzopen
    \/ readData
    \/ readChunkSize
    \/ readChunkData
    \/ readChunkGzip
    \/ checkTTL

SpecLive == Init /\ [][Next]_vars /\ WF_vars(ReadStep)

TypeOK ==
    /\ pc \in {"idle", "dialed", "headers", "gzopen", "line", "size", "copy",
               "gunzip", "ttl", "done", "crashed", "panicked", "aborted"}
    /\ net.dials \in 0..1
    /\ elapsed \in 0..MaxTime
    /\ remain >= 0

\* ====================================================== the properties
\* Read has left: it returned, it panicked or the test double ended it.
Exited == pc \in {"done", "panicked", "aborted"}

\* C1: when the dial succeeded the transport is closed exactly once by the
\* time Read is left, whichever way it is left, and never more than once;
\* when the dial failed no close is issued.
C1_ClosedExactlyOnce ==
    /\ net.closes <= 1
    /\ (Exited /\ hist.dialOk) => net.closes = 1
    /\ ~hist.dialOk => net.closes = 0

\* C1 witness: an error exit (malformed chunk size) after a successful dial.
C1_Witness == pc = "done" /\ hist.dialOk /\ result.ret = "ExpectedHex" /\ net.closes = 1

\* C2: on the transport scripted as in TestParse (write, one line L, EOF,
\* close) a non-chunked, non-gzip Read makes one write, delivers exactly the
\* line L, closes once and consumes the whole script without a failure of
\* the test double.
C2_TestParse ==
    (mock /\ pc \in {"done", "aborted", "crashed", "panicked"}) =>
        /\ net.writes = 1 /\ sent.written
        /\ out = << hist.testLine \o <<LF>> >>
        /\ net.closes = 1
        /\ script = <<>>
        /\ mockOk

\* C3: when the transport reported EOF while the body was read, Read returns
\* nil.
C3_EofReturnsNil == (pc = "done" /\ hist.bodyEof) => result.ret = "nil"

\* C4: with TTL > 0, a TTL check that runs after a unit when the elapsed time
\* exceeds the TTL ends Read with nil and without another transport read, in
\* plain and in chunked mode (whatever the unit's copy left in err).
C4_ExpiredReturnsNil ==
    [][(pc = "ttl" /\ conf.TTL > 0 /\ elapsed > conf.TTL /\ pc' # "ttl")
        => (pc' = "done" /\ result'.ret = "nil" /\ net'.reads = net.reads /\ out' = out)]_vars

\* C4 witness: Read returned nil from chunked mode although the copy of the
\* last chunk had failed.
C4_Witness == pc = "done" /\ result.ret = "nil" /\ conf.Chunked /\ err # "none"

\* C5 as stated: with a configured TTL no unit is delivered at a moment when
\* the elapsed time already exceeds the TTL.
C5_NoUnitAfterTTL == hist.lateUnit = -1

\* C5 as amended: the check follows the unit.  A unit can be delivered when
\* the elapsed time already exceeds the TTL, but only the last unit of the
\* stream: no TTL check lets the loop go on after it.
C5_OnlyLastUnitAfterTTL == hist.lateUnit \in {-1, hist.units}

\* C5 witness: the first line was delivered in time, the second one late.
C5_Witness == hist.lateUnit = 1 /\ pc = "done" /\ ~conf.Chunked

\* C6 as stated: with TTL = 0 Read stops after at most one unit.
C6_ZeroTTLOneUnit == conf.TTL = 0 => hist.units <= 1

\* C6 as amended: with TTL > 0 already exceeded when the first unit is
\* delivered, no second unit is processed and Read returns nil (TTL = 0
\* switches the check off).
C6_ExpiredFirstUnit ==
    hist.lateUnit = 0 => (hist.units = 0 /\ (pc = "done" => result.ret = "nil"))

\* C6 witness: chunked mode, first chunk delivered late, Read returned nil.
C6_Witness == hist.lateUnit = 0 /\ pc = "done" /\ result.ret = "nil" /\ conf.Chunked

\* C7: when Connection.request failed, no read is issued on the transport
\* and Read returns that error.
C7_RequestErrorReturned ==
    reqErr \in {"NewRequestError", "WriteError"} =>
        (net.reads = 0 /\ (pc = "done" => result.ret = reqErr))

\* C8: after an I/O error on a header read no body decoding is started and
\* Read returns the error.
C8_HeaderErrorReturned ==
    hist.hdrIOErr =>
        (pc \notin {"line", "size", "copy", "gunzip", "ttl", "gzopen"}
         /\ (pc = "done" => result.ret = "IOError"))

\* The character class [0-9a-fA-F].
IsHexLine(l) == \A i \in 1..Len(l) : l[i] \in (48..57) \cup (97..102) \cup (65..70)

\* C9: a chunk-size line with a byte outside [0-9a-fA-F] ends Read with an
\* error whose text contains the line; since the line was read nothing was
\* read from the transport and nothing was written to the output; and the
\* error is raised for no other line.
C9_MalformedChunkSize ==
    /\ ~IsHexLine(hist.sizeLine) =>
          /\ pc \in {"done", "aborted"}
          /\ pc = "done" => (result.ret = "ExpectedHex" /\ Contains(result.text, hist.sizeLine))
          /\ net.reads = hist.sizeReads
          /\ Len(out) = hist.sizeOut
    /\ result.ret = "ExpectedHex" => ~IsHexLine(hist.sizeLine)

\* C9 witness: a malformed size line after a chunk that was delivered.
C9_Witness == pc = "done" /\ result.ret = "ExpectedHex" /\ Len(out) >= 1

\* The value of a line of hex digits.
RECURSIVE HexValue(_)
HexValue(l) ==
    IF l = <<>> THEN 0
    ELSE LET c == l[Len(l)]
             v == IF c <= 57 THEN c - 48 ELSE IF c <= 70 THEN c - 55 ELSE c - 87
         IN 16 * HexValue(SubSeq(l, 1, Len(l) - 1)) + v

\* The chunk payloads of a chunked body w, concatenated: size line, that many
\* bytes, and so on, up to the end of w or a malformed size line.
RECURSIVE PayloadOf(_)
PayloadOf(w) ==
    IF ~HasLF(w) THEN <<>>
    ELSE LET i == IndexLF(w)
             l == SubSeq(w, 1, IF i > 1 /\ w[i-1] = CR THEN i - 2 ELSE i - 1)
             rest == SubSeq(w, i + 1, Len(w))
         IN IF ~IsHexLine(l) THEN <<>>
            ELSE LET n == Min(HexValue(l), Len(rest))
                 IN SubSeq(rest, 1, n) \o PayloadOf(SubSeq(rest, n + 1, Len(rest)))

\* The body bytes the decoder has taken from its reader.
Consumed == SubSeq(hist.wire, 1, Len(hist.wire) - Len(buf))

\* Chunked mode without gzip, the body being decoded or Read left, every
\* size line so far ended by a line feed.
PlainChunked ==
    /\ conf.Chunked /\ ~conf.GZip /\ ~hist.cutLine
    /\ pc \in {"size", "copy", "ttl", "done"}

NotCRLF(p) == p # CRLF

\* C10 as stated: the output is exactly the chunk payloads, in wire order,
\* whatever their content.
C10_PayloadForwarded == PlainChunked => Flatten(out) = PayloadOf(Consumed)

\* C10 as amended: the pieces handed to the writer are the chunk payloads in
\* wire order, and the output is those pieces except the pieces that are
\* exactly CR LF, which the NonEmptyWriter drops.
C10_PayloadForwardedButCRLF ==
    PlainChunked =>
        /\ Flatten(hist.fwd) = PayloadOf(Consumed)
        /\ out = SelectSeq(hist.fwd, NotCRLF)

\* C10 witness: a chunk went to the output and a CR LF piece was dropped.
C10_Witness ==
    /\ PlainChunked /\ Len(out) >= 1
    /\ \E i \in 1..Len(hist.fwd) : hist.fwd[i] = CRLF

\* ------------------------------------------------------------------ C11
\* C11: once the headers are read the body takes the gzip path if and only
\* if Configuration.GZip was true when Read was called and some header line
\* beginning (in any letter case) with "Content-Encoding:" contains "gzip":
\* a decompressor exists only then, everything delivered then came out of
\* the decompressor, and in every other case the body is read as plain
\* bytes and no decompressor is created.
GzipNegotiated == hist.askedGZip /\ hist.declared

C11_GzipIffAskedAndDeclared ==
    /\ decomp => GzipNegotiated
    /\ pc \in {"gzopen", "gunzip"} => GzipNegotiated
    /\ (pc \in {"gzopen", "line", "size", "copy", "gunzip", "ttl"}) => (conf.GZip = GzipNegotiated)
    /\ (GzipNegotiated /\ out # <<>>) => decomp
    /\ (~GzipNegotiated /\ pc \in {"line", "size", "copy", "ttl"}) => ~decomp

\* C11 witness: a chunked body was decompressed and delivered after a
\* mixed-case Content-Encoding: gzip header answered a request for gzip.
C11_Witness == conf.Chunked /\ GzipNegotiated /\ decomp /\ out # <<>>

\* C11 second case: gzip was asked for, the response did not declare it, and
\* body bytes were delivered without a decompressor.
C11_WitnessPlain == hist.askedGZip /\ ~hist.declared /\ ~decomp /\ out # <<>>

\* ------------------------------------------------------------------ C12
\* The chunked body read so far is GzStream cut into two chunks after i bytes,
\* gzip was negotiated and the transport has not ended.
SplitBody(i) ==
    conf.Chunked /\ GzipNegotiated /\ hist.wire = TwoChunks(i) /\ ~eof

\* C12: in chunked gzip mode, for every cut of a valid gzip stream into two
\* consecutive chunks (inside the header, inside a block, anywhere) decoding
\* raises no error and, once both chunks are processed, the output is the
\* original uncompressed bytes.
C12_EverySplitDecodes ==
    \A i \in 0..Len(GzStream) :
        SplitBody(i) =>
            /\ pc # "panicked"
            /\ result.ret \in {"none", "nil", "IOError"}
            /\ (pc = "size" /\ buf = <<>>) => Flatten(out) = GzPlain

\* ------------------------------------------------------------------ C13
\* C13: with a ReaderListener configured every read issued on the wrapped
\* reader completes: it returns after one read of the underlying transport
\* (and the listener has then been given the bytes of that read).
C13_ListenerReadCompletes == conf.ReaderListener => pc # "crashed"

\* ------------------------------------------------------------------ C20
\* C20: within one Read the transport operations come in the order dial,
\* request write, header reads, body reads, close: no read before the
\* request write has been attempted, no write after the first read (the
\* only write is made before any read), nothing after the close, and a
\* failed dial returns the dial error with no write, read or close.
C20_TransportOrder ==
    /\ net.reads > 0 => net.writes >= 1
    /\ net.writes <= 1
    /\ pc \in {"idle", "dialed"} => (net.reads = 0 /\ net.closes = 0)
    /\ net.closes >= 1 => (net.closes = 1 /\ Exited)
    /\ (net.writes + net.reads + net.closes > 0) => hist.dialOk
    /\ (pc = "done" /\ ~hist.dialOk) =>
            (result.ret = "DialError" /\ net.writes = 0 /\ net.reads = 0 /\ net.closes = 0)

\* ------------------------------------------------------------------ C21
\* A size line that decodes to zero: no digit at all, or zeros only.
ZeroLine(l) == \A i \in 1..Len(l) : l[i] = 48

\* C21: in chunked mode without gzip a size line that decodes to zero (a
\* line of zeros, or the empty line left by the CR LF after a payload) emits
\* nothing, raises no error and does not end the stream: the decoder passes
\* the TTL check and goes on to the next size line; after such a line only
\* an expired TTL ends the loop before the next read.
C21_ZeroChunkContinues ==
    [][ /\ ( /\ conf.Chunked /\ ~conf.GZip /\ pc = "size" /\ LineReady
             /\ ReadLine(buf, rdErr).err = "none" /\ ZeroLine(ReadLine(buf, rdErr).line)
             /\ elapsed' = elapsed )
           => (pc' = "ttl" /\ err' = "none" /\ out' = out /\ result' = result /\ net' = net)
        /\ ( /\ conf.Chunked /\ ~conf.GZip /\ pc = "ttl" /\ ZeroLine(hist.sizeLine)
             /\ elapsed' = elapsed )
           => \/ pc' = "size" /\ out' = out /\ result' = result /\ net' = net
              \/ Expired /\ pc' = "done" /\ result'.ret = "nil" /\ out' = out
      ]_vars

\* C21 witness: after a delivered chunk a line "0" was read, nothing more was
\* emitted and the decoder is back at the next size line.
C21_Witness ==
    /\ conf.Chunked /\ ~conf.GZip /\ pc = "size" /\ result.ret = "none"
    /\ hist.sizeLine = <<48>> /\ hist.units >= 2 /\ Len(out) = 1 /\ hist.sizeOut = 1

\* ------------------------------------------------------------------ C23
\* The TTL is set and the time elapsed since streaming began exceeds it
\* while Read is in the body loop.
PastTTL == InBody /\ conf.TTL > 0 /\ elapsed > conf.TTL

\* C23 as stated: with TTL > 0, once the elapsed time exceeds the TTL, Read
\* eventually returns, whether or not the transport delivers anything more.
C23_ReturnsOncePastTTL == PastTTL ~> Exited

\* C23 as amended: once the elapsed time exceeds the TTL, Read returns when
\* the unit it is handling is complete (from the check after the unit it
\* always returns); until then it can only be waiting in a read of the
\* transport, which has no deadline.
C23_ReturnsOnceUnitComplete ==
    /\ PastTTL ~> (Exited \/ NeedData)
    /\ (PastTTL /\ pc = "ttl") ~> Exited

\* C23 witness: Read was past the TTL with a unit delivered and has returned
\* nil without a further read error or end of input on the transport.
C23_Witness ==
    /\ conf.TTL > 0 /\ elapsed > conf.TTL /\ pc = "done" /\ result.ret = "nil"
    /\ hist.lateUnit = hist.units /\ out # <<>> /\ ~eof /\ err = "none"

\* C23, the case of the silent transport: past the TTL, a unit already
\* delivered, and Read waits for the transport.
C23_WitnessBlocked ==
    PastTTL /\ NeedData /\ out # <<>> /\ ~eof

C26_ForwardsOnlyDecoded ==
    (conf.Chunked /\ hist.unzipped # <<>>) => out = hist.unzipped

\* ------------------------------------------------------------------ C27
\* C27: in chunked mode without gzip, when the copy of a chunk's payload
\* ended with a transport error other than end of input, Read returns that
\* error, also when the TTL is set and has been exceeded.
C27_CopyErrorReturned ==
    [][ ( /\ conf.Chunked /\ ~conf.GZip /\ pc = "ttl"
          /\ err \notin {"none", "EOF"} /\ Exited' )
        => result'.ret = err ]_vars

\* =================================================== the library functions
\* NonEmptyWriter.Write and the functions of package oauth1a, each applied
\* to inputs drawn from small sets.

\* What NonEmptyWriter.Write(p) returns, w being what the wrapped writer
\* returns for p (lines 89-95).
NonEmptyWriterReturnZero(p, w) ==
    IF Len(p) = 0 \/ (Len(p) = 2 /\ p = CRLF) THEN [n |-> 0, err |-> "nil"] ELSE w

NonEmptyWriterReturn(p, w) ==
    IF Len(p) = 0 \/ (Len(p) = 2 /\ p = CRLF) THEN [n |-> Len(p), err |-> "nil"] ELSE w

\* The pieces of ss written one after the other (bytes.Buffer writes,
\* string concatenation).
RECURSIVE Concat(_)
Concat(ss) ==
    IF Len(ss) = 0 THEN <<>>
    ELSE IF Len(ss) = 1 THEN ss[1]
    ELSE LET m == Len(ss) \div 2
         IN Concat(SubSeq(ss, 1, m)) \o Concat(SubSeq(ss, m + 1, Len(ss)))

\* ---------------------------------------------------------- Rfc3986Escape
\* UNESCAPE_CHARS: 0-9 A-Z a-z - . _ ~
UNESCAPE_CHARS ==
    [i \in 1..10 |-> 47 + i] \o [i \in 1..26 |-> 64 + i] \o [i \in 1..26 |-> 96 + i]
    \o <<45, 46, 95, 126>>

\* strings.IndexAny(string(c), UNESCAPE_CHARS) == -1
IndexAnyMisses(c) == \A i \in 1..Len(UNESCAPE_CHARS) : UNESCAPE_CHARS[i] # c

UpperHexDigit(n) == IF n < 10 THEN 48 + n ELSE 55 + n

\* fmt.Sprintf("%X", c) of a byte: upper-case hexadecimal without padding,
\* one digit below 0x10.
SprintfX(c) ==
    IF c < 16 THEN <<UpperHexDigit(c)>>
    ELSE <<UpperHexDigit(c \div 16), UpperHexDigit(c % 16)>>

\* The body of the loop of Rfc3986Escape (lines 620-627), for each byte.
Rfc3986EscapeByte ==
    [c \in 0..ByteMax |-> IF IndexAnyMisses(c) THEN <<37>> \o SprintfX(c) ELSE <<c>>]

Rfc3986Escape(input) == Concat([i \in 1..Len(input) |-> Rfc3986EscapeByte[input[i]]])

\* url.QueryEscape: letters, digits, - _ . ~ are kept, a space becomes '+',
\* every other byte becomes % and two upper-case hexadecimal digits.
QueryEscapeByte ==
    [c \in 0..ByteMax |->
        IF c = 32 THEN <<43>>
        ELSE IF IndexAnyMisses(c) THEN <<37, UpperHexDigit(c \div 16), UpperHexDigit(c % 16)>>
        ELSE <<c>>]

QueryEscape(t) == Concat([i \in 1..Len(t) |-> QueryEscapeByte[t[i]]])

\* ------------------------------------------------------- encodeParameters
\* Comparison of Go strings: byte-wise, a proper prefix is smaller.
RECURSIVE LessStr(_, _)
LessStr(a, b) ==
    IF b = <<>> THEN FALSE
    ELSE IF a = <<>> THEN TRUE
    ELSE IF Head(a) # Head(b) THEN Head(a) < Head(b)
    ELSE LessStr(Tail(a), Tail(b))

RECURSIVE InsertSorted(_, _)
InsertSorted(x, sorted) ==
    IF sorted = <<>> THEN <<x>>
    ELSE IF LessStr(Head(sorted), x) THEN <<Head(sorted)>> \o InsertSorted(x, Tail(sorted))
    ELSE <<x>> \o sorted

\* Mutant: the keys are used in the order the map yielded them.
SortStringsNone(keys) == keys

\* sort.Strings(keys)
RECURSIVE SortStrings(_)
SortStrings(keys) ==
    IF keys = <<>> THEN <<>> ELSE InsertSorted(Head(keys), SortStrings(Tail(keys)))

\* strings.Join
Join(parts, sep) ==
    IF parts = <<>> THEN <<>>
    ELSE Concat([i \in 1..(2 * Len(parts) - 1) |->
                    IF i % 2 = 1 THEN parts[(i + 1) \div 2] ELSE sep])

\* A Go map is a function from names to values; ranging over it yields its
\* keys in an order the language leaves unspecified: any of these.
RECURSIVE RangeOrders(_)
RangeOrders(K) ==
    IF K = {} THEN {<<>>}
    ELSE UNION { { <<k>> \o o : o \in RangeOrders(K \ {k}) } : k \in K }

\* Two of them: some order and the same backwards.
RECURSIVE SomeOrder(_)
SomeOrder(K) ==
    IF K = {} THEN <<>>
    ELSE LET k == CHOOSE x \in K : TRUE IN <<k>> \o SomeOrder(K \ {k})

Backwards(o) == [i \in 1..Len(o) |-> o[Len(o) + 1 - i]]

TwoOrders(K) == { SomeOrder(K), Backwards(SomeOrder(K)) }

EmptyMap == [k \in {} |-> <<>>]

\* for key, value := range over { base[key] = value }
Overwrite(base, over) ==
    [k \in DOMAIN base \cup DOMAIN over |-> IF k \in DOMAIN over THEN over[k] ELSE base[k]]

\* encodeParameters(params) (lines 518-533), order being the order in which
\* the range over params yielded the keys.
encodeParameters(params, order) ==
    LET keys == SortStrings(order)
        encodedParts == [i \in 1..Len(keys) |->
                            Rfc3986Escape(keys[i]) \o <<61>> \o Rfc3986Escape(params[keys[i]])]
    IN QueryEscape(Join(encodedParts, <<38>>))

\* ------------------------------------------------------------ the names
OAuthConsumerKey == <<111, 97, 117, 116, 104, 95, 99, 111, 110, 115, 117, 109, 101, 114, 95, 107, 101, 121>>
OAuthNonce == <<111, 97, 117, 116, 104, 95, 110, 111, 110, 99, 101>>
OAuthSignature == <<111, 97, 117, 116, 104, 95, 115, 105, 103, 110, 97, 116, 117, 114, 101>>
OAuthSignatureMethod == <<111, 97, 117, 116, 104, 95, 115, 105, 103, 110, 97, 116, 117, 114, 101, 95, 109, 101, 116, 104, 111, 100>>
OAuthTimestamp == <<111, 97, 117, 116, 104, 95, 116, 105, 109, 101, 115, 116, 97, 109, 112>>
OAuthToken == <<111, 97, 117, 116, 104, 95, 116, 111, 107, 101, 110>>
OAuthVersion == <<111, 97, 117, 116, 104, 95, 118, 101, 114, 115, 105, 111, 110>>
StrHmacSha1 == <<72, 77, 65, 67, 45, 83, 72, 65, 49>>
StrOneZero == <<49, 46, 48>>
StrOAuthSpace == <<79, 65, 117, 116, 104, 32>>
StrSchemeSep == <<58, 47, 47>>
StrGET == <<71, 69, 84>>
StrPOST == <<80, 79, 83, 84>>

\* -------------------------------------------------------------- GetToken
\* Mutant: the request token is preferred to the access token.
GetTokenRequestFirst(u) ==
    IF u.RequestTokenKey # <<>>
    THEN [key |-> u.RequestTokenKey, secret |-> u.RequestTokenSecret]
    ELSE IF u.AccessTokenKey # <<>>
    THEN [key |-> u.AccessTokenKey, secret |-> u.AccessTokenSecret]
    ELSE [key |-> <<>>, secret |-> <<>>]

\* UserConfig.GetToken (lines 56-67)
GetToken(u) ==
    IF u.AccessTokenKey # <<>>
    THEN [key |-> u.AccessTokenKey, secret |-> u.AccessTokenSecret]
    ELSE IF u.RequestTokenKey # <<>>
    THEN [key |-> u.RequestTokenKey, secret |-> u.RequestTokenSecret]
    ELSE [key |-> <<>>, secret |-> <<>>]

\* ---------------------------------------------------------- GetSignature
\* HMAC-SHA1 and base64 are library code: a function of the key and the
\* message whose value is text of the base64 alphabet ending in '='.  The
\* model keeps that much: two characters computed from all the bytes.
RECURSIVE SumBytes(_)
SumBytes(t) ==
    IF Len(t) = 0 THEN 0
    ELSE IF Len(t) = 1 THEN t[1]
    ELSE LET m == Len(t) \div 2
         IN (SumBytes(SubSeq(t, 1, m)) + 3 * SumBytes(SubSeq(t, m + 1, Len(t)))) % 4096

Base64Char(n) ==
    IF n < 26 THEN 65 + n ELSE IF n < 52 THEN 71 + n ELSE IF n < 62 THEN n - 4
    ELSE IF n = 62 THEN 43 ELSE 47

GetSignature(consumerSecret, tokenSecret, signatureBase) ==
    LET signingKey == consumerSecret \o <<38>> \o tokenSecret
        h == SumBytes(signingKey \o <<0>> \o signatureBase)
    IN <<Base64Char(h % 64), Base64Char((h \div 64) % 64), 61>>

\* -------------------------------------------------------- GetOAuthParams
\* req.ParseForm(): Form holds the body parameters and the query
\* parameters, the body value first where both carry a name.
FormOf(req) == Overwrite(req.Query, req.Post)

\* GetOAuthParams (lines 548-581).  os is the order in which encodeParameters'
\* range over signingParams yields the keys; the ranges that copy one map
\* into another give the same map in every order (the keys are distinct).
GetOAuthParams(req, clientConfig, userConfig, nonce, timestamp, os) ==
    LET token == GetToken(userConfig)
        fixed == [k \in {OAuthConsumerKey, OAuthNonce, OAuthSignatureMethod,
                         OAuthTimestamp, OAuthVersion} |->
                     IF k = OAuthConsumerKey THEN clientConfig.ConsumerKey
                     ELSE IF k = OAuthNonce THEN nonce
                     ELSE IF k = OAuthSignatureMethod THEN StrHmacSha1
                     ELSE IF k = OAuthTimestamp THEN timestamp
                     ELSE StrOneZero]
        oauthParams == IF token.key # <<>>
                       THEN Overwrite(fixed, [k \in {OAuthToken} |-> token.key])
                       ELSE fixed
        signingParams == Overwrite(Overwrite(oauthParams, req.Query), FormOf(req))
        signingUrl == req.Scheme \o StrSchemeSep \o req.Host \o req.Path
        signatureBase == Join(<<req.Method, QueryEscape(signingUrl),
                                encodeParameters(signingParams, os)>>, <<38>>)
        signature == GetSignature(clientConfig.ConsumerSecret, token.secret, signatureBase)
    IN [params |-> Overwrite(oauthParams, [k \in {OAuthSignature} |-> signature]),
        base |-> signatureBase]

\* ------------------------------------------------------------------ Sign
\* Lines 599-605 of Sign: the Authorization header made from oauthParams,
\* oh being the order in which the range over the map yields the keys.
SignHeader(oauthParams, oh) ==
    LET headerParts == [i \in 1..Len(oh) |->
                           Rfc3986Escape(oh[i]) \o <<61, 34>> \o Rfc3986Escape(oauthParams[oh[i]]) \o <<34>>]
    IN StrOAuthSpace \o Join(headerParts, <<44, 32>>)

\* ------------------------------------------------- the access token flow
\* The earlier revision of package oauth1a (lines 1-290 of oauth1a.go).
OAuthTokenSecret == <<111, 97, 117, 116, 104, 95, 116, 111, 107, 101, 110, 95, 115, 101, 99, 114, 101, 116>>
OAuthVerifier == <<111, 97, 117, 116, 104, 95, 118, 101, 114, 105, 102, 105, 101, 114>>
ErrNoRequestToken == "No configured request token"
ErrTokenMismatch == "Returned token did not match request token"
ErrNoToken == "No token or secret found"
ErrEndpoint == "Endpoint response"

\* strings.Split(s, c) for a one-byte separator.
RECURSIVE Split(_, _)
Split(s, c) ==
    IF \A i \in 1..Len(s) : s[i] # c THEN <<s>>
    ELSE LET i == CHOOSE i \in 1..Len(s) : s[i] = c /\ \A j \in 1..(i - 1) : s[j] # c
         IN <<SubSeq(s, 1, i - 1)>> \o Split(SubSeq(s, i + 1, Len(s)), c)

\* The unescaping of a query component, on bodies without '%': '+' is a space.
QueryUnescape(t) == [i \in 1..Len(t) |-> IF t[i] = 43 THEN 32 ELSE t[i]]

\* http.ParseQuery(body) followed by Values.Get: the pairs are separated by
\* '&', the key ends at the first '=', an empty pair is skipped, and of the
\* values of one key Get returns the first.
ParseQuery(body) ==
    LET parts == SelectSeq(Split(body, 38), LAMBDA q : q # <<>>)
        keyOf(q) == QueryUnescape(Split(q, 61)[1])
        valueOf(q) == IF Len(Split(q, 61)) = 1 THEN <<>>
                      ELSE QueryUnescape(SubSeq(q, Len(Split(q, 61)[1]) + 2, Len(q)))
        first(k) == CHOOSE i \in 1..Len(parts) :
                        keyOf(parts[i]) = k /\ \A j \in 1..(i - 1) : keyOf(parts[j]) # k
    IN [k \in { keyOf(parts[i]) : i \in 1..Len(parts) } |-> valueOf(parts[first(k)])]

ValuesGet(params, k) == IF k \in DOMAIN params THEN params[k] ELSE <<>>

\* Send (lines 78-91).  env holds what the collaborators answer: sign is the
\* result of Signer.Sign, do the error of client.Do, status the status code
\* of the response.  done tells that client.Do was called.
Send(env) ==
    IF env.sign # "nil" THEN [response |-> FALSE, err |-> env.sign, done |-> FALSE]
    ELSE IF env.do # "nil" THEN [response |-> FALSE, err |-> env.do, done |-> TRUE]
    ELSE IF env.status # 200 THEN [response |-> FALSE, err |-> ErrEndpoint, done |-> TRUE]
    ELSE [response |-> TRUE, err |-> "nil", done |-> TRUE]

\* parseAccessToken (lines 115-134): read is the error of ioutil.ReadAll,
\* body the bytes it returned; the error of ParseQuery is ignored.
parseAccessToken(env, userConfig) ==
    IF env.read # "nil" THEN [err |-> env.read, user |-> userConfig]
    ELSE LET params == ParseQuery(env.body)
             tokenKey == ValuesGet(params, OAuthToken)
             tokenSecret == ValuesGet(params, OAuthTokenSecret)
         IN IF tokenKey = <<>> \/ tokenSecret = <<>>
            THEN [err |-> ErrNoToken, user |-> userConfig]
            ELSE [err |-> "nil",
                  user |-> [userConfig EXCEPT !.AccessTokenKey = tokenKey,
                                              !.AccessTokenSecret = tokenSecret,
                                              !.AccessValues = params]]

\* The Form of the request http.NewRequest returns: NewRequest fills in the
\* method, the URL, the header and the body, and leaves Form nil (ParseForm
\* is what allocates it).
NewRequestForm == "nil"

\* GetAccessToken (lines 93-113).  request.Form.Add (line 106) stores into
\* the map Form: with the nil Form of a fresh request that is a run-time
\* panic, and lines 107-112 are not reached.
GetAccessToken(token, verifier, userConfig, env) ==
    IF userConfig.RequestTokenKey = <<>> \/ userConfig.RequestTokenSecret = <<>>
    THEN [ret |-> ErrNoRequestToken, user |-> userConfig, done |-> FALSE]
    ELSE IF userConfig.RequestTokenKey # token
    THEN [ret |-> ErrTokenMismatch, user |-> userConfig, done |-> FALSE]
    ELSE LET u == [userConfig EXCEPT !.Verifier = verifier] IN
         IF env.newRequest # "nil" THEN [ret |-> env.newRequest, user |-> u, done |-> FALSE]
         ELSE IF NewRequestForm = "nil" THEN [ret |-> "panic", user |-> u, done |-> FALSE]
         ELSE LET sent0 == Send(env) IN
              IF sent0.err # "nil" THEN [ret |-> sent0.err, user |-> u, done |-> sent0.done]
              ELSE LET parsed == parseAccessToken(env, u)
                   IN [ret |-> parsed.err, user |-> parsed.user, done |-> TRUE]

\* ------------------------------------------------------------ the inputs
\* Writes: nothing, CR LF, CR, LF CR, CR LF CR LF, "x", "xy".
WriteInputs == { <<>>, CRLF, <<CR>>, <<LF, CR>>, CRLF \o CRLF, <<120>>, <<120, 121>> }

\* What the wrapped writer can return for p: all written, or an error after
\* some of it.
WriterResults(p) ==
    { [n |-> Len(p), err |-> "nil"] } \cup { [n |-> k, err |-> "IOError"] : k \in 0..(Len(p) - 1) }

\* Strings to escape: every single byte, and "", "a b", "\n1", "~/é".
EscapeInputs ==
    { <<c>> : c \in 0..ByteMax } \cup { <<>>, <<97, 32, 98>>, <<10, 49>>, <<126, 47, 195, 169>> }

\* Parameter maps: names whose raw order differs from the order of their
\* escaped forms ("a0" < "a:" but "a%3A" < "a0"), a value with a space.
ParamsA == [k \in { <<97, 48>>, <<97, 58>> } |-> IF k = <<97, 48>> THEN <<49>> ELSE <<120, 32, 121>>]
ParamsB == [k \in { <<98>>, <<97, 58>>, <<97>> } |-> <<50>>]
\* Query parameters that carry the names of protocol parameters.
ParamsOAuth == [k \in { OAuthToken, OAuthNonce } |-> <<113>>]

ClientConfigs == { [ConsumerKey |-> <<99, 107>>, ConsumerSecret |-> <<99, 115>>] }

UserConfigs ==
    [AccessTokenKey : { <<>>, <<97, 116>> }, AccessTokenSecret : { <<97, 115>> },
     RequestTokenKey : { <<>>, <<114, 116>> }, RequestTokenSecret : { <<114, 115>> }]

\* Requests to https://h: paths "/p" and "/a b", with or without query and
\* body parameters; a request with body parameters is a POST.
Requests ==
    { [Method |-> IF post = EmptyMap THEN StrGET ELSE StrPOST,
       Scheme |-> <<104, 116, 116, 112, 115>>, Host |-> <<104>>, Path |-> path,
       Query |-> query, Post |-> post] :
        path \in { <<47, 112>>, <<47, 97, 32, 98>> },
        query \in { EmptyMap, ParamsA, ParamsOAuth },
        post \in { EmptyMap, [k \in { <<98>> } |-> <<50>>] } }

Nonces == { <<110, 49>>, <<110, 50>> }
Timestamps == { <<49, 50, 51>> }

\* The requests, users and nonces Sign is applied to.
SignNonces == { <<110, 49>> }
SignRequests == { r \in Requests : r.Path = <<47, 112>> /\ r.Post = EmptyMap /\ r.Query # ParamsOAuth }
SignUsers == { u \in UserConfigs : u.RequestTokenKey = <<>> }

\* ------------------------------------------------------------- the calls
Idle == oa.op = "idle"

callWrite ==
    /\ Idle
    /\ \E p \in WriteInputs : \E w \in WriterResults(p) :
        oa' = [op |-> "Write", p |-> p, w |-> w,
               sink |-> NonEmptyWriterWrite(<<>>, p),
               ret |-> NonEmptyWriterReturn(p, w)]
    /\ UNCHANGED streamVars

callRfc3986Escape ==
    /\ Idle
    /\ \E input \in EscapeInputs :
        oa' = [op |-> "Rfc3986Escape", input |-> input, output |-> Rfc3986Escape(input)]
    /\ UNCHANGED streamVars

callEncodeParameters ==
    /\ Idle
    /\ \E params \in { ParamsA, ParamsB, ParamsOAuth } : \E order \in RangeOrders(DOMAIN params) :
        oa' = [op |-> "encodeParameters", params |-> params, order |-> order,
               output |-> encodeParameters(params, order)]
    /\ UNCHANGED streamVars

callGetOAuthParams ==
    /\ Idle
    /\ \E req \in Requests, c \in ClientConfigs, u \in UserConfigs,
          nonce \in Nonces, timestamp \in Timestamps :
        LET names == DOMAIN req.Query \cup DOMAIN req.Post
                     \cup { OAuthConsumerKey, OAuthNonce, OAuthSignatureMethod,
                            OAuthTimestamp, OAuthVersion }
                     \cup (IF GetToken(u).key # <<>> THEN { OAuthToken } ELSE {})
        IN \E os \in TwoOrders(names) :
           \E r \in { GetOAuthParams(req, c, u, nonce, timestamp, os) } :
               oa' = [op |-> "GetOAuthParams", req |-> req, client |-> c, user |-> u,
                      nonce |-> nonce, timestamp |-> timestamp,
                      params |-> r.params, base |-> r.base]
    /\ UNCHANGED streamVars

\* Sign (lines 595-608): the nonce and the timestamp come from GenerateNonce
\* and the clock, the parameters from GetOAuthParams, the header from a
\* range over the map of parameters.
callSign ==
    /\ Idle
    /\ \E req \in SignRequests, c \in ClientConfigs, u \in SignUsers,
          nonce \in SignNonces, timestamp \in Timestamps :
        LET signed == { OAuthConsumerKey, OAuthNonce, OAuthSignatureMethod,
                        OAuthTimestamp, OAuthVersion }
                      \cup (IF GetToken(u).key # <<>> THEN { OAuthToken } ELSE {})
                      \cup DOMAIN req.Query \cup DOMAIN req.Post
        IN \E oauthParams \in { GetOAuthParams(req, c, u, nonce, timestamp, SomeOrder(signed)).params } :
           \E oh \in RangeOrders(DOMAIN oauthParams) :
            oa' = [op |-> "Sign", req |-> req, client |-> c, user |-> u,
                   nonce |-> nonce, timestamp |-> timestamp, params |-> oauthParams,
                   header |-> SignHeader(oauthParams, oh)]
    /\ UNCHANGED streamVars

\* The users of the access token flow: with or without a request token key
\* and secret, with or without an access token from an earlier run.
AccessUsers ==
    { [RequestTokenKey |-> rk, RequestTokenSecret |-> rs,
       AccessTokenKey |-> a[1], AccessTokenSecret |-> a[2],
       Verifier |-> <<>>, AccessValues |-> EmptyMap] :
        rk \in { <<>>, <<114, 116>> }, rs \in { <<>>, <<114, 115>> },
        a \in { << <<>>, <<>> >>, << <<97, 116>>, <<97, 115>> >> } }

\* The token the provider handed back: the stored one, another one, none.
Tokens == { <<114, 116>>, <<122, 122>>, <<>> }
Verifiers == { <<118>> }

\* Response bodies: both parameters (in both orders), one of them, one of
\* them empty, nothing.
Bodies ==
    { <<111, 97, 117, 116, 104, 95, 116, 111, 107, 101, 110, 61, 110, 116, 38, 111, 97, 117, 116, 104, 95, 116, 111, 107, 101, 110, 95, 115, 101, 99, 114, 101, 116, 61, 110, 115>>,
      <<111, 97, 117, 116, 104, 95, 116, 111, 107, 101, 110, 95, 115, 101, 99, 114, 101, 116, 61, 110, 115, 38, 120, 61, 49, 38, 111, 97, 117, 116, 104, 95, 116, 111, 107, 101, 110, 61, 110, 116>>,
      <<111, 97, 117, 116, 104, 95, 116, 111, 107, 101, 110, 61, 110, 116>>,
      <<111, 97, 117, 116, 104, 95, 116, 111, 107, 101, 110, 95, 115, 101, 99, 114, 101, 116, 61, 110, 115>>,
      <<111, 97, 117, 116, 104, 95, 116, 111, 107, 101, 110, 61, 38, 111, 97, 117, 116, 104, 95, 116, 111, 107, 101, 110, 95, 115, 101, 99, 114, 101, 116, 61, 110, 115>>,
      <<>> }

\* What the collaborators of the flow can answer.
Envs ==
    [newRequest : { "nil", "NewRequestError" }, sign : { "nil", "SignError" },
     do : { "nil", "DoError" }, status : { 200, 401 },
     read : { "nil", "ReadError" }, body : Bodies]

callGetAccessToken ==
    /\ Idle
    /\ \E u \in AccessUsers, token \in Tokens, verifier \in Verifiers, env \in Envs :
        \E r \in { GetAccessToken(token, verifier, u, env) } :
            oa' = [op |-> "GetAccessToken", user |-> u, token |-> token,
                   verifier |-> verifier, env |-> env,
                   ret |-> r.ret, after |-> r.user, done |-> r.done]
    /\ UNCHANGED streamVars

callSend ==
    /\ Idle
    /\ \E env \in Envs :
        \E r \in { Send(env) } :
            oa' = [op |-> "Send", env |-> env, response |-> r.response,
                   err |-> r.err, done |-> r.done]
    /\ UNCHANGED streamVars

callParseAccessToken ==
    /\ Idle
    /\ \E u \in AccessUsers, env \in Envs :
        \E r \in { parseAccessToken(env, u) } :
            oa' = [op |-> "parseAccessToken", user |-> u, env |-> env,
                   err |-> r.err, after |-> r.user]
    /\ UNCHANGED streamVars

NextFn ==
    \/ callWrite
    \/ callRfc3986Escape
    \/ callEncodeParameters
    \/ callGetOAuthParams
    \/ callSign
    \/ callGetAccessToken
    \/ callSend
    \/ callParseAccessToken

InitFn ==
    /\ Init
    /\ ~mock
    /\ conf = [Chunked |-> FALSE, GZip |-> FALSE, TTL |-> 0, ReaderListener |-> FALSE]

SpecFn == InitFn /\ [][NextFn]_vars

\* ============================================ properties of the functions
\* ------------------------------------------------------------------ C14
\* C14: NonEmptyWriter.Write(p) calls the wrapped writer's Write with p and
\* returns what it returns exactly when p is not empty and is not CR LF;
\* otherwise the wrapped writer is not called and Write returns (len(p), nil).
C14_NonEmptyWriterWrite ==
    oa.op = "Write" =>
        IF Len(oa.p) > 0 /\ oa.p # <<13, 10>>
        THEN oa.sink = <<oa.p>> /\ oa.ret = oa.w
        ELSE oa.sink = <<>> /\ oa.ret = [n |-> Len(oa.p), err |-> "nil"]

\* C14 witness: a CR LF write was swallowed and reported as two bytes
\* written although the wrapped writer would have failed.
C14_Witness ==
    oa.op = "Write" /\ oa.p = CRLF /\ oa.sink = <<>> /\ oa.w.err = "IOError" /\ oa.ret.n = 2

\* C14 second case: a write of two bytes that are not CR LF went through
\* and the wrapped writer's error came back.
C14_WitnessForwarded ==
    oa.op = "Write" /\ oa.p = <<10, 13>> /\ oa.sink = <<oa.p>> /\ oa.ret.err = "IOError"

\* ------------------------------------------------------------------ C15
\* RFC 3986: unreserved characters, and percent-decoding.
IsUnreserved(c) ==
    \/ 48 <= c /\ c <= 57
    \/ 65 <= c /\ c <= 90
    \/ 97 <= c /\ c <= 122
    \/ c \in {45, 46, 95, 126}

IsUpperHex(c) == (48 <= c /\ c <= 57) \/ (65 <= c /\ c <= 70)

\* -1 marks a '%' that is not followed by two hexadecimal digits.
RECURSIVE PercentDecode(_)
PercentDecode(t) ==
    IF t = <<>> THEN <<>>
    ELSE IF t[1] # 37 THEN <<t[1]>> \o PercentDecode(Tail(t))
    ELSE IF Len(t) >= 3 /\ IsUpperHex(t[2]) /\ IsUpperHex(t[3])
    THEN <<HexValue(SubSeq(t, 2, 3))>> \o PercentDecode(SubSeq(t, 4, Len(t)))
    ELSE <<-1>>

\* C15: Rfc3986Escape leaves a byte unchanged when it is one of
\* A-Z a-z 0-9 - . _ ~ and otherwise emits exactly three characters, '%' and
\* the two upper-case hexadecimal digits of the byte (also below 0x10);
\* percent-decoding the escape of a byte string gives the string back.
C15_EscapeRoundTrip ==
    oa.op = "Rfc3986Escape" =>
        /\ Len(oa.input) = 1 =>
                IF IsUnreserved(oa.input[1]) THEN oa.output = oa.input
                ELSE /\ Len(oa.output) = 3
                     /\ oa.output[1] = 37
                     /\ IsUpperHex(oa.output[2]) /\ IsUpperHex(oa.output[3])
                     /\ HexValue(SubSeq(oa.output, 2, 3)) = oa.input[1]
        /\ PercentDecode(oa.output) = oa.input

\* ------------------------------------------------------------------ C16
\* a comes before b in byte-wise order.
BytewiseBefore(a, b) ==
    \E k \in 1..(Len(b)) :
        /\ \A j \in 1..(k - 1) : j <= Len(a) /\ a[j] = b[j]
        /\ (k = Len(a) + 1 \/ (k <= Len(a) /\ a[k] < b[k]))

\* The names of a map in ascending byte-wise order.
Ascending(K) ==
    [i \in 1..Cardinality(K) |->
        CHOOSE k \in K : Cardinality({ j \in K : BytewiseBefore(j, k) }) = i - 1]

\* C16: encodeParameters gives the same string whatever the order in which
\* the map yields its pairs, and in that string the pairs stand in ascending
\* byte-wise order of their raw names.
C16_EncodeParametersSorted ==
    oa.op = "encodeParameters" =>
        LET o == Ascending(DOMAIN oa.params)
            pairs == [i \in 1..Len(o) |->
                         Rfc3986Escape(o[i]) \o <<61>> \o Rfc3986Escape(oa.params[o[i]])]
        IN oa.output = QueryEscape(Join(pairs, <<38>>))

\* C16 witness: the map yielded "a:" before "a0" (descending raw order,
\* ascending order of the escaped names).
C16_Witness ==
    oa.op = "encodeParameters" /\ oa.order = << <<97, 58>>, <<97, 48>> >>

\* ------------------------------------------------------------------ C17
\* The order of the test fixture (CONNECT_STRING): ascending names.
FixtureOrder ==
    << OAuthConsumerKey, OAuthNonce, OAuthSignature, OAuthSignatureMethod,
       OAuthTimestamp, OAuthToken, OAuthVersion >>

InSignedParams(k) == k \in DOMAIN oa.params

\* C17: for a fixed request, credentials, nonce and timestamp the value of
\* the Authorization header is always the same: "OAuth " and the oauth_*
\* parameters as key="escaped value", joined by ", ", in ascending name order.
C17_HeaderDeterministic ==
    oa.op = "Sign" =>
        LET o == SelectSeq(FixtureOrder, InSignedParams)
            parts == [i \in 1..Len(o) |->
                         Rfc3986Escape(o[i]) \o <<61, 34>> \o Rfc3986Escape(oa.params[o[i]]) \o <<34>>]
        IN oa.header = StrOAuthSpace \o Join(parts, <<44, 32>>)

\* ------------------------------------------------------------------ C18
\* The token UserConfig.GetToken is specified to return: the access token
\* key when it is not empty, else the request token key (possibly empty).
TokenKeyOf(u) == IF u.AccessTokenKey # <<>> THEN u.AccessTokenKey ELSE u.RequestTokenKey

\* C18: the map returned by GetOAuthParams always holds oauth_consumer_key,
\* oauth_nonce, oauth_signature_method = HMAC-SHA1, oauth_timestamp,
\* oauth_version = 1.0 and oauth_signature; it holds oauth_token exactly when
\* GetToken returns a non-empty key; and no query or form parameter of the
\* request is in it.
C18_OAuthParams ==
    oa.op = "GetOAuthParams" =>
        LET m == oa.params
            tok == TokenKeyOf(oa.user)
            sent0 == Overwrite(oa.req.Query, oa.req.Post)
        IN /\ DOMAIN m = { OAuthConsumerKey, OAuthNonce, OAuthSignatureMethod,
                           OAuthTimestamp, OAuthVersion, OAuthSignature }
                         \cup (IF tok # <<>> THEN { OAuthToken } ELSE {})
           /\ m[OAuthConsumerKey] = oa.client.ConsumerKey
           /\ m[OAuthNonce] = oa.nonce
           /\ m[OAuthSignatureMethod] = StrHmacSha1
           /\ m[OAuthTimestamp] = oa.timestamp
           /\ m[OAuthVersion] = StrOneZero
           /\ tok # <<>> => m[OAuthToken] = tok
           /\ \A k \in DOMAIN sent0 : k \in DOMAIN m => m[k] # sent0[k]

\* C18 witness: the request carries oauth_token and oauth_nonce as query
\* parameters, the user has both a request and an access token.
C18_Witness ==
    /\ oa.op = "GetOAuthParams" /\ oa.req.Query = ParamsOAuth
    /\ oa.user.AccessTokenKey # <<>> /\ oa.user.RequestTokenKey # <<>>
    /\ OAuthToken \in DOMAIN oa.params

\* C18 second case: no token at all, and a request that names oauth_token.
C18_WitnessNoToken ==
    /\ oa.op = "GetOAuthParams" /\ oa.req.Query = ParamsOAuth
    /\ oa.user.AccessTokenKey = <<>> /\ oa.user.RequestTokenKey = <<>>
    /\ OAuthToken \notin DOMAIN oa.params

\* ------------------------------------------------------------------ C19
\* RFC 3986 percent-encoding of a byte string.
PercentEncode(t) ==
    Concat([i \in 1..Len(t) |->
               IF IsUnreserved(t[i]) THEN <<t[i]>>
               ELSE <<37, UpperHexDigit(t[i] \div 16), UpperHexDigit(t[i] % 16)>>])

\* The request's parameter names do not collide with protocol names.
PlainNames(r) ==
    \A k \in DOMAIN r.Query \cup DOMAIN r.Post : ~HasPrefix(k, SubSeq(OAuthNonce, 1, 6))

\* C19: the signature base string is METHOD & enc(scheme://host/path) &
\* enc(sorted parameter string) with enc the RFC 3986 percent-encoding in
\* every component: a space is never rendered as '+' in the base string.
C19_BaseStringEncoding ==
    oa.op = "GetOAuthParams" =>
        LET r == oa.req
            url == r.Scheme \o StrSchemeSep \o r.Host \o r.Path
            head == r.Method \o <<38>> \o PercentEncode(url) \o <<38>>
            signing == Overwrite(Overwrite([k \in DOMAIN oa.params \ { OAuthSignature } |-> oa.params[k]],
                                           r.Query), r.Post)
            o == Ascending(DOMAIN signing)
            pairs == [i \in 1..Len(o) |-> PercentEncode(o[i]) \o <<61>> \o PercentEncode(signing[o[i]])]
        IN /\ HasPrefix(oa.base, head)
           /\ \A i \in 1..Len(oa.base) : oa.base[i] # 43
           /\ PlainNames(r) => oa.base = head \o PercentEncode(Join(pairs, <<38>>))

\* ------------------------------------------------------------------ C25
\* The signature base string carries the parameter k with the value v: the
\* encoded pair k=v stands in it after a separator and before a separator
\* or the end.
InBase(base, k, v) ==
    LET pair == PercentEncode(PercentEncode(k) \o <<61>> \o PercentEncode(v))
        sep == PercentEncode(<<38>>)
        at(i, t) == i >= 1 /\ i + Len(t) - 1 <= Len(base) /\ SubSeq(base, i, i + Len(t) - 1) = t
    IN \E i \in 1..Len(base) :
        /\ at(i, pair)
        /\ at(i - 1, <<38>>) \/ at(i - Len(sep), sep)
        /\ i + Len(pair) - 1 = Len(base) \/ at(i + Len(pair), sep)

\* C25: each oauth_* parameter GetOAuthParams returns for the Authorization
\* header, other than oauth_signature, has the value the parameter of that
\* name has inside the signature base string, also when the request's query
\* or form carries a parameter with an oauth_* name.
C25_HeaderMatchesBase ==
    oa.op = "GetOAuthParams" =>
        \A k \in DOMAIN oa.params \ { OAuthSignature } : InBase(oa.base, k, oa.params[k])

\* C25 on requests whose parameters carry no protocol name: there the header
\* and the base string agree.
C25_PlainNamesAgree ==
    (oa.op = "GetOAuthParams" /\ PlainNames(oa.req)) =>
        \A k \in DOMAIN oa.params \ { OAuthSignature } : InBase(oa.base, k, oa.params[k])

\* ------------------------------------------------------------------ C22
\* The response body carries the parameter name with a value.
Carries(body, name) ==
    LET t == name \o <<61>>
    IN \E i \in 1..Len(body) :
        /\ i + Len(t) <= Len(body)
        /\ SubSeq(body, i, i + Len(t) - 1) = t
        /\ i = 1 \/ body[i - 1] = 38
        /\ body[i + Len(t)] # 38

AccessTokenOf(u) == <<u.AccessTokenKey, u.AccessTokenSecret>>

\* C22: GetAccessToken changes the access token key and secret only when a
\* request token key and secret are configured, the token passed in is the
\* stored request token key, the request was sent and answered with status
\* 200 and the body carries oauth_token and oauth_token_secret; in every
\* other case it returns an error and the access token is as before; with no
\* request token configured or another token passed in, no request is sent.
C22_AccessTokenGuarded ==
    oa.op = "GetAccessToken" =>
        LET configured == oa.user.RequestTokenKey # <<>> /\ oa.user.RequestTokenSecret # <<>>
            matches == oa.token = oa.user.RequestTokenKey
            answered == oa.done /\ oa.env.do = "nil" /\ oa.env.status = 200
            carried == /\ oa.env.read = "nil"
                       /\ Carries(oa.env.body, OAuthToken)
                       /\ Carries(oa.env.body, OAuthTokenSecret)
            all == configured /\ matches /\ answered /\ carried
        IN /\ AccessTokenOf(oa.after) # AccessTokenOf(oa.user) => all
           /\ ~all => ( /\ oa.ret \notin { "nil", "panic" }
                        /\ AccessTokenOf(oa.after) = AccessTokenOf(oa.user) )
           /\ ~(configured /\ matches) => ~oa.done

\* C22, the parts the flow is made of: Send hands a response on only when
\* the signer and the client succeeded and the status is 200, and returns an
\* error otherwise; parseAccessToken stores the access token only from a
\* body read without error that carries both parameters, and returns an
\* error and leaves the access token as it was otherwise.
C22_SendAndParseGuarded ==
    /\ oa.op = "Send" =>
        /\ oa.response <=> (oa.env.sign = "nil" /\ oa.env.do = "nil" /\ oa.env.status = 200)
        /\ oa.response <=> oa.err = "nil"
        /\ oa.env.sign # "nil" => ~oa.done
    /\ oa.op = "parseAccessToken" =>
        LET carried == /\ oa.env.read = "nil"
                       /\ Carries(oa.env.body, OAuthToken)
                       /\ Carries(oa.env.body, OAuthTokenSecret)
        IN /\ carried <=> oa.err = "nil"
           /\ carried => AccessTokenOf(oa.after) = << <<110, 116>>, <<110, 115>> >>
           /\ ~carried => oa.after = oa.user

====
